---- MODULE Spec2Model ----
(***************************************************************************)
(* pngme: the Type Tag (lib/src/chunk_type.rs), the Chunk codec            *)
(* (src/chunk.rs), the Png container the command handlers use, and the     *)
(* four command handlers (src/main.rs, src/util.rs).                       *)
(*                                                                         *)
(* Representation.  A byte is a number in 0..255 and a Vec<u8> / &[u8] a   *)
(* sequence of bytes.  A char is its Unicode scalar value and a &str /     *)
(* String the sequence of its chars; as_bytes and from_utf8 are the UTF-8  *)
(* encoder and decoder.  A u32 is the record [hi, lo] of its two 16-bit    *)
(* halves (the model checker's integers are 32-bit signed, a u32 is not).  *)
(***************************************************************************)
EXTENDS Integers, Sequences, FiniteSets, TLC

VARIABLES
    op,      \* name of the last operation performed
    inp,     \* ChunkType: the input of the last constructor call
    res,     \* ChunkType: the Result of the last constructor call
    out,     \* ChunkType: what the last accessor returned
    chunk,   \* Chunk: the value Chunk::new built
    buf,     \* Chunk: the byte slice handed to Chunk::try_from
    src,     \* Chunk: how buf came about
    parsed,  \* Chunk: the Result of Chunk::try_from(buf)
    fs,      \* commands: the contents of each path of the file system
    cmd      \* commands: the last command line run and its outcome

vars == <<op, inp, res, out, chunk, buf, src, parsed, fs, cmd>>

None == [none |-> TRUE]

Ok(v) == [ok |-> TRUE, val |-> v]
Err(e) == [ok |-> FALSE, err |-> e]

-----------------------------------------------------------------------------
(* Bounds of the model.                                                    *)

\* the longest text handed to ChunkType::from_str, in chars
MaxStrChars == 5
\* the longest payload handed to Chunk::new, in bytes
MaxLen == 2
\* the most bytes appended behind a serialized chunk
MaxExtra == 1
\* the most chunks a png file holds
MaxChunks == 2

-----------------------------------------------------------------------------
(* Bytes, u32 and usize.                                                   *)

Byte == 0..255

RECURSIVE BitXor(_, _, _)
\* a ^ b on n-bit operands
BitXor(a, b, n) ==
    IF n = 0 THEN 0
    ELSE (((a % 2) + (b % 2)) % 2) + 2 * BitXor(a \div 2, b \div 2, n - 1)

XorNibble == [a \in 0..15 |-> [b \in 0..15 |-> BitXor(a, b, 4)]]

Xor8(a, b) == (XorNibble[a \div 16][b \div 16] * 16) + XorNibble[a % 16][b % 16]

Xor16(a, b) == (Xor8(a \div 256, b \div 256) * 256) + Xor8(a % 256, b % 256)

U32(h, l) == [hi |-> h, lo |-> l]

U32Xor(a, b) == U32(Xor16(a.hi, b.hi), Xor16(a.lo, b.lo))

\* a >> n for 0 < n < 16
U32Shr(a, n) ==
    U32(a.hi \div (2 ^ n),
        (a.lo \div (2 ^ n)) + ((a.hi % (2 ^ n)) * (2 ^ (16 - n))))

\* usize as u32: the low 32 bits
usize_as_u32(n) == U32((n \div 65536) % 65536, n % 65536)

\* u32::to_be_bytes
to_be_bytes(u) == <<u.hi \div 256, u.hi % 256, u.lo \div 256, u.lo % 256>>

\* u32::from_be_bytes
from_be_bytes(b) == U32((b[1] * 256) + b[2], (b[3] * 256) + b[4])

\* (a as usize) + n on a 64-bit usize, kept as [hi, lo] with hi up to 2^16
usize_add(a, n) ==
    LET l == a.lo + n IN [hi |-> a.hi + (l \div 65536), lo |-> l % 65536]

\* a usize that is at most n, n the length of a slice of the model
usize_le(a, n) == a.hi < 32768 /\ (a.hi * 65536) + a.lo <= n

\* slice.get(from..to): None when from > to or to > len
slice_get(s, from, to) ==
    IF to > Len(s) \/ from > to THEN None
    ELSE Ok(SubSeq(s, from + 1, to))

-----------------------------------------------------------------------------
(* UTF-8: std::str::from_utf8, str::as_bytes, String::from_utf8_lossy.     *)

IsCont(b) == b >= 128 /\ b <= 191

At(s, i) == IF i <= Len(s) THEN s[i] ELSE -1

\* The scalar value starting at s[i]: [valid, len, cp]; for an ill-formed
\* start, len is the length of the maximal ill-formed prefix.
Utf8At(s, i) ==
    LET b0 == s[i]
        b1 == At(s, i + 1)
        b2 == At(s, i + 2)
        b3 == At(s, i + 3)
        bad(n) == [valid |-> FALSE, len |-> n, cp |-> 65533]
        good(n, c) == [valid |-> TRUE, len |-> n, cp |-> c]
        lo2 == IF b0 = 224 THEN 160 ELSE 128
        hi2 == IF b0 = 237 THEN 159 ELSE 191
        lo4 == IF b0 = 240 THEN 144 ELSE 128
        hi4 == IF b0 = 244 THEN 143 ELSE 191
    IN  IF b0 < 128 THEN good(1, b0)
        ELSE IF b0 >= 194 /\ b0 <= 223 THEN
            IF IsCont(b1) THEN good(2, ((b0 - 192) * 64) + (b1 - 128)) ELSE bad(1)
        ELSE IF b0 >= 224 /\ b0 <= 239 THEN
            IF ~(b1 >= lo2 /\ b1 <= hi2) THEN bad(1)
            ELSE IF ~IsCont(b2) THEN bad(2)
            ELSE good(3, ((b0 - 224) * 4096) + ((b1 - 128) * 64) + (b2 - 128))
        ELSE IF b0 >= 240 /\ b0 <= 244 THEN
            IF ~(b1 >= lo4 /\ b1 <= hi4) THEN bad(1)
            ELSE IF ~IsCont(b2) THEN bad(2)
            ELSE IF ~IsCont(b3) THEN bad(3)
            ELSE good(4, ((b0 - 240) * 262144) + ((b1 - 128) * 4096)
                          + ((b2 - 128) * 64) + (b3 - 128))
        ELSE bad(1)

RECURSIVE Utf8Decode(_, _, _)
\* the chars of s[i..] behind acc; None at the first ill-formed sequence
Utf8Decode(s, i, acc) ==
    IF i > Len(s) THEN Ok(acc)
    ELSE LET u == Utf8At(s, i)
         IN  IF u.valid THEN Utf8Decode(s, i + u.len, Append(acc, u.cp))
             ELSE Err([kind |-> "InvalidUtf8", valid_up_to |-> i - 1])

\* std::str::from_utf8
from_utf8(s) == Utf8Decode(s, 1, <<>>)

RECURSIVE Utf8DecodeLossy(_, _, _)
Utf8DecodeLossy(s, i, acc) ==
    IF i > Len(s) THEN acc
    ELSE LET u == Utf8At(s, i)
         IN  Utf8DecodeLossy(s, i + u.len, Append(acc, u.cp))

\* String::from_utf8_lossy
from_utf8_lossy(s) == Utf8DecodeLossy(s, 1, <<>>)

\* char::encode_utf8
EncodeChar(c) ==
    IF c < 128 THEN <<c>>
    ELSE IF c < 2048 THEN <<192 + (c \div 64), 128 + (c % 64)>>
    ELSE IF c < 65536 THEN
        <<224 + (c \div 4096), 128 + ((c \div 64) % 64), 128 + (c % 64)>>
    ELSE <<240 + (c \div 262144), 128 + ((c \div 4096) % 64),
           128 + ((c \div 64) % 64), 128 + (c % 64)>>

RECURSIVE str_as_bytes(_)
\* str::as_bytes / String::into_bytes
str_as_bytes(s) ==
    IF s = <<>> THEN <<>> ELSE EncodeChar(Head(s)) \o str_as_bytes(Tail(s))

\* c.is_ascii() && c.is_alphabetic()
is_ascii_alphabetic(c) ==
    c <= 127 /\ ((c >= 65 /\ c <= 90) \/ (c >= 97 /\ c <= 122))

-----------------------------------------------------------------------------
(* lib/src/chunk_type.rs: ChunkType([u8; 4]) is the sequence of its bytes. *)

RECURSIVE FirstInvalidChar(_)
\* the loop of validate_content: the first char that is not an ASCII letter
FirstInvalidChar(cs) ==
    IF cs = <<>> THEN None
    ELSE IF ~is_ascii_alphabetic(Head(cs)) THEN Ok(Head(cs))
    ELSE FirstInvalidChar(Tail(cs))

\* validate_content with is_alphanumeric in place of is_alphabetic
validate_content_alphanumeric(content) ==
    IF Len(content) # 4
    THEN Err([kind |-> "InvalidLength", n |-> Len(content)])
    ELSE LET text == from_utf8(content)
             okc(c) == is_ascii_alphabetic(c) \/ (c >= 48 /\ c <= 57)
         IN  IF ~text.ok THEN Err([kind |-> "InvalidUtf8"])
             ELSE IF \E i \in 1..Len(text.val) : ~okc(text.val[i])
             THEN LET i == CHOOSE i \in 1..Len(text.val) :
                               /\ ~okc(text.val[i])
                               /\ \A j \in 1..(i - 1) : okc(text.val[j])
                  IN  Err([kind |-> "InvalidCharacter", c |-> text.val[i]])
             ELSE Ok(<<>>)

validate_content(content) ==
    IF Len(content) # 4
    THEN Err([kind |-> "InvalidLength", n |-> Len(content)])
    ELSE LET text == from_utf8(content)
         IN  IF ~text.ok THEN Err([kind |-> "InvalidUtf8"])
             ELSE LET c == FirstInvalidChar(text.val)
                  IN  IF c # None
                      THEN Err([kind |-> "InvalidCharacter", c |-> c.val])
                      ELSE Ok(<<>>)

\* byte & 0b01000000 > 0: the mask one bit off
is_6th_bit_set(byte) == (byte \div 64) % 2 > 0

\* byte & 0b00100000 > 0
is_5th_bit_set(byte) == (byte \div 32) % 2 > 0

bytes(self) == self

is_critical(self) == ~is_5th_bit_set(self[1])

is_public(self) == ~is_5th_bit_set(self[2])

is_reserved_bit_valid(self) == ~is_5th_bit_set(self[3])

is_safe_to_copy(self) == is_5th_bit_set(self[4])

is_valid(self) == is_reserved_bit_valid(self)

\* impl TryFrom<[u8; 4]> for ChunkType
ChunkType_try_from(value) ==
    LET v == validate_content(value)
    IN  IF ~v.ok THEN v ELSE Ok(value)

\* from_str with the index of the last byte mistyped
ChunkType_from_str_typo(s) ==
    LET value == str_as_bytes(s)
        v == validate_content(value)
    IN  IF ~v.ok THEN v ELSE Ok(<<value[1], value[2], value[3], value[3]>>)

\* impl FromStr for ChunkType
ChunkType_from_str(s) ==
    LET value == str_as_bytes(s)
        v == validate_content(value)
    IN  IF ~v.ok THEN v ELSE Ok(<<value[1], value[2], value[3], value[4]>>)

\* Display written with {:?}: the text between double quotes
ChunkType_to_string_debug(self) ==
    LET text == from_utf8(self)
    IN  IF text.ok THEN <<34>> \o text.val \o <<34>> ELSE "panic"

\* impl Display for ChunkType, through to_string(): the text of the bytes,
\* or the panic of expect()
ChunkType_to_string(self) ==
    LET text == from_utf8(self)
    IN  IF text.ok THEN text.val ELSE "panic"

-----------------------------------------------------------------------------
(* src/chunk.rs: the checksum.  Crc::<u32>::new(&CRC_32_ISO_HDLC) is the   *)
(* reflected CRC-32: polynomial 0x04C11DB7, initial value and final xor    *)
(* 0xFFFFFFFF, input and output reflected.                                 *)

RECURSIVE Reflect(_, _)
\* the n low bits of a in reverse order
Reflect(a, n) ==
    IF n = 0 THEN 0
    ELSE ((a % 2) * (2 ^ (n - 1))) + Reflect(a \div 2, n - 1)

CRC_32_ISO_HDLC ==
    [poly |-> U32(1217, 7607), init |-> U32(65535, 65535),
     xorout |-> U32(65535, 65535)]

\* the polynomial, reflected: 0xEDB88320
ReflectedPoly ==
    U32(Reflect(CRC_32_ISO_HDLC.poly.lo, 16), Reflect(CRC_32_ISO_HDLC.poly.hi, 16))

RECURSIVE CrcShift(_, _)
\* n steps of the reflected shift register
CrcShift(c, n) ==
    IF n = 0 THEN c
    ELSE CrcShift(IF c.lo % 2 = 1 THEN U32Xor(U32Shr(c, 1), ReflectedPoly)
                  ELSE U32Shr(c, 1), n - 1)

CrcTable == [b \in Byte |-> CrcShift(U32(0, b), 8)]

RECURSIVE digest_update(_, _)
\* Digest::update: one table step per byte
digest_update(crc, data) ==
    IF data = <<>> THEN crc
    ELSE LET next == U32Xor(CrcTable[Xor8(crc.lo % 256, Head(data))],
                            U32Shr(crc, 8))
         IN  \* the register is a value before the next byte is read
             IF next.lo >= 0 THEN digest_update(next, Tail(data)) ELSE next

\* Digest::finalize
digest_finalize(crc) == U32Xor(crc, CRC_32_ISO_HDLC.xorout)

\* the checksum over the data alone: the type bytes left out
calculate_crc_data_only(chunk_type, data) ==
    digest_finalize(digest_update(CRC_32_ISO_HDLC.init, data))

calculate_crc(chunk_type, data) ==
    digest_finalize(
        digest_update(digest_update(CRC_32_ISO_HDLC.init, bytes(chunk_type)),
                      data))

-----------------------------------------------------------------------------
(* src/chunk.rs: Chunk and its parse errors.                               *)

ChunkTooShort == [kind |-> "ChunkTooShort"]

ChunkTooLong == [kind |-> "ChunkTooLong"]

InvalidChunkType(e) == [kind |-> "InvalidChunkType", source |-> e]

InvalidCrc(e, a) == [kind |-> "InvalidCrc", expected |-> e, actual |-> a]

Chunk(l, t, d, c) == [length |-> l, chunk_type |-> t, data |-> d, crc |-> c]

Chunk_new(chunk_type, data) ==
    LET crc == calculate_crc(chunk_type, data)
    IN  Chunk(usize_as_u32(Len(data)), chunk_type, data, crc)

\* self.length as usize
length(self) == (self.length.hi * 65536) + self.length.lo

chunk_type(self) == self.chunk_type

data(self) == self.data

crc(self) == self.crc

data_as_string(self) == from_utf8_lossy(self.data)

\* as_bytes with the length written little-endian
as_bytes_le(self) ==
    LET l == to_be_bytes(self.length)
    IN  <<l[4], l[3], l[2], l[1]>> \o bytes(self.chunk_type) \o self.data
            \o to_be_bytes(self.crc)

\* as_bytes with the checksum chained before the data
as_bytes_crc_first(self) ==
    to_be_bytes(self.length) \o bytes(self.chunk_type)
        \o to_be_bytes(self.crc) \o self.data

as_bytes(self) ==
    to_be_bytes(self.length) \o bytes(self.chunk_type) \o self.data
        \o to_be_bytes(self.crc)

\* raw_chunk.get(from..to) with `to` a usize that may exceed every slice
get_to_usize(s, from, to) ==
    IF ~usize_le(to, Len(s)) THEN None
    ELSE slice_get(s, from, (to.hi * 65536) + to.lo)

\* try_from with expected and actual of InvalidCrc swapped
Chunk_try_from_swapped(raw_chunk) ==
    LET length_bytes == slice_get(raw_chunk, 0, 4)
    IN  IF length_bytes = None THEN Err(ChunkTooShort)
    ELSE
    LET len == from_be_bytes(length_bytes.val)
        type_bytes == slice_get(raw_chunk, 4, 8)
    IN  IF type_bytes = None THEN Err(ChunkTooShort)
    ELSE
    LET ctype == ChunkType_try_from(type_bytes.val)
    IN  IF ~ctype.ok THEN Err(InvalidChunkType(ctype.err))
    ELSE
    LET data_end_index == usize_add(len, 8)
        payload == get_to_usize(raw_chunk, 8, data_end_index)
    IN  IF payload = None THEN Err(ChunkTooShort)
    ELSE
    LET end == (data_end_index.hi * 65536) + data_end_index.lo
        crc_bytes == slice_get(raw_chunk, end, end + 4)
    IN  IF crc_bytes = None THEN Err(ChunkTooShort)
    ELSE
    LET stored == from_be_bytes(crc_bytes.val)
        calculated_crc == calculate_crc(ctype.val, payload.val)
    IN  IF calculated_crc # stored THEN Err(InvalidCrc(calculated_crc, stored))
        ELSE IF Len(raw_chunk) > end + 4 THEN Err(ChunkTooLong)
        ELSE Ok(Chunk(len, ctype.val, payload.val, stored))

\* try_from with the length of the slice checked before the checksum
Chunk_try_from_long_first(raw_chunk) ==
    LET length_bytes == slice_get(raw_chunk, 0, 4)
    IN  IF length_bytes = None THEN Err(ChunkTooShort)
    ELSE
    LET len == from_be_bytes(length_bytes.val)
        type_bytes == slice_get(raw_chunk, 4, 8)
    IN  IF type_bytes = None THEN Err(ChunkTooShort)
    ELSE
    LET ctype == ChunkType_try_from(type_bytes.val)
    IN  IF ~ctype.ok THEN Err(InvalidChunkType(ctype.err))
    ELSE
    LET data_end_index == usize_add(len, 8)
        payload == get_to_usize(raw_chunk, 8, data_end_index)
    IN  IF payload = None THEN Err(ChunkTooShort)
    ELSE
    LET end == (data_end_index.hi * 65536) + data_end_index.lo
        crc_bytes == slice_get(raw_chunk, end, end + 4)
    IN  IF crc_bytes = None THEN Err(ChunkTooShort)
    ELSE
    LET stored == from_be_bytes(crc_bytes.val)
        calculated_crc == calculate_crc(ctype.val, payload.val)
    IN  IF Len(raw_chunk) > end + 4 THEN Err(ChunkTooLong)
        ELSE IF calculated_crc # stored THEN Err(InvalidCrc(stored, calculated_crc))
        ELSE Ok(Chunk(len, ctype.val, payload.val, stored))

\* impl TryFrom<&[u8]> for Chunk
Chunk_try_from(raw_chunk) ==
    LET length_bytes == slice_get(raw_chunk, 0, 4)
    IN  IF length_bytes = None THEN Err(ChunkTooShort)
    ELSE
    LET len == from_be_bytes(length_bytes.val)
        type_bytes == slice_get(raw_chunk, 4, 8)
    IN  IF type_bytes = None THEN Err(ChunkTooShort)
    ELSE
    LET ctype == ChunkType_try_from(type_bytes.val)
    IN  IF ~ctype.ok THEN Err(InvalidChunkType(ctype.err))
    ELSE
    LET data_end_index == usize_add(len, 8)
        payload == get_to_usize(raw_chunk, 8, data_end_index)
    IN  IF payload = None THEN Err(ChunkTooShort)
    ELSE
    LET end == (data_end_index.hi * 65536) + data_end_index.lo
        crc_bytes == slice_get(raw_chunk, end, end + 4)
    IN  IF crc_bytes = None THEN Err(ChunkTooShort)
    ELSE
    LET stored == from_be_bytes(crc_bytes.val)
        calculated_crc == calculate_crc(ctype.val, payload.val)
    IN  IF calculated_crc # stored THEN Err(InvalidCrc(stored, calculated_crc))
        ELSE IF Len(raw_chunk) > end + 4 THEN Err(ChunkTooLong)
        ELSE Ok(Chunk(len, ctype.val, payload.val, stored))


-----------------------------------------------------------------------------
(* The Type Tag under test: a constructor call, then the accessors.        *)

\* the bytes the arrays handed to ChunkType::try_from are made of:
\* 1 @ A Z [ a z, and the two bytes of U+00E9
TagBytes == {49, 64, 65, 90, 91, 97, 122, 195, 169}

\* the chars the texts handed to ChunkType::from_str are made of
TagChars == {49, 65, 122, 233}

TagArrays == [1..4 -> TagBytes]

RECURSIVE SeqsUpTo(_, _)
\* the sequences over S of length at most n
SeqsUpTo(S, n) ==
    IF n = 0 THEN {<<>>}
    ELSE LET shorter == SeqsUpTo(S, n - 1)
         IN  shorter \cup {Append(s, x) : s \in shorter, x \in S}

\* the texts of the tests of chunk_type.rs: RuSt, Rust, Ru1t
TestTexts == {<<82, 117, 83, 116>>, <<82, 117, 115, 116>>, <<82, 117, 49, 116>>}

TagTexts == SeqsUpTo(TagChars, MaxStrChars) \cup TestTexts

TagInputs ==
    {[kind |-> "bytes", val |-> v] : v \in TagArrays}
        \cup {[kind |-> "str", val |-> s] : s \in TagTexts}

InitType ==
    /\ op = "init"
    /\ inp \in TagInputs
    /\ res = None
    /\ out = None
    /\ chunk = None
    /\ buf = <<>>
    /\ src = None
    /\ parsed = None
    /\ fs = None
    /\ cmd = None

TryFromBytes ==
    /\ op = "init"
    /\ inp.kind = "bytes"
    /\ op' = "try_from"
    /\ res' = ChunkType_try_from(inp.val)
    /\ UNCHANGED <<inp, out, chunk, buf, src, parsed, fs, cmd>>

FromStr ==
    /\ op = "init"
    /\ inp.kind = "str"
    /\ op' = "from_str"
    /\ res' = ChunkType_from_str(inp.val)
    /\ UNCHANGED <<inp, out, chunk, buf, src, parsed, fs, cmd>>

Held == res # None /\ res.ok

Bytes ==
    /\ Held
    /\ op' = "bytes"
    /\ out' = bytes(res.val)
    /\ UNCHANGED <<inp, res, chunk, buf, src, parsed, fs, cmd>>

Render ==
    /\ Held
    /\ op' = "to_string"
    /\ out' = ChunkType_to_string(res.val)
    /\ UNCHANGED <<inp, res, chunk, buf, src, parsed, fs, cmd>>

Flags ==
    /\ Held
    /\ op' = "flags"
    /\ out' = [is_valid |-> is_valid(res.val),
               is_critical |-> is_critical(res.val),
               is_public |-> is_public(res.val),
               is_reserved_bit_valid |-> is_reserved_bit_valid(res.val),
               is_safe_to_copy |-> is_safe_to_copy(res.val)]
    /\ UNCHANGED <<inp, res, chunk, buf, src, parsed, fs, cmd>>

NextType ==
    \/ TryFromBytes
    \/ FromStr
    \/ Bytes
    \/ Render
    \/ Flags

SpecType == InitType /\ [][NextType]_vars

-----------------------------------------------------------------------------
(* The Chunk under test: Chunk::new, as_bytes, then the bytes are handed   *)
(* to Chunk::try_from as they are or after one byte was overwritten and    *)
(* the slice cut short or extended.                                        *)

\* the type tags handed to Chunk::new: RuSt, tEXt
ChunkTags == {<<82, 117, 83, 116>>, <<116, 69, 88, 116>>}

\* the bytes the payloads are made of
PayloadBytes == {0, 255}

\* the bytes written over a byte of the slice
TamperBytes == {0, 1, 49, 255}

Payloads == SeqsUpTo(PayloadBytes, MaxLen)

InitChunk ==
    /\ op = "init"
    /\ inp \in {[chunk_type |-> t, data |-> p] : t \in ChunkTags, p \in Payloads}
    /\ res = None
    /\ out = None
    /\ chunk = None
    /\ buf = <<>>
    /\ src = None
    /\ parsed = None
    /\ fs = None
    /\ cmd = None

New ==
    /\ op = "init"
    /\ op' = "new"
    /\ chunk' = Chunk_new(inp.chunk_type, inp.data)
    /\ UNCHANGED <<inp, res, out, buf, src, parsed, fs, cmd>>

AsBytes ==
    /\ op = "new"
    /\ op' = "as_bytes"
    /\ buf' = as_bytes(chunk)
    /\ src' = [at |-> 0, delta |-> 0]
    /\ UNCHANGED <<inp, res, out, chunk, parsed, fs, cmd>>

\* byte i of the slice (from 1) is overwritten by b
Tamper(i, b) ==
    /\ op = "as_bytes"
    /\ buf[i] # b
    /\ op' = "tamper"
    /\ buf' = [buf EXCEPT ![i] = b]
    /\ src' = [src EXCEPT !.at = i]
    /\ UNCHANGED <<inp, res, out, chunk, parsed, fs, cmd>>

\* only the first n bytes of the slice are kept
Truncate(n) ==
    /\ op \in {"as_bytes", "tamper"}
    /\ op' = "truncate"
    /\ buf' = SubSeq(buf, 1, n)
    /\ src' = [src EXCEPT !.delta = n - Len(buf)]
    /\ UNCHANGED <<inp, res, out, chunk, parsed, fs, cmd>>

\* bytes follow the slice
Extend(extra) ==
    /\ op \in {"as_bytes", "tamper"}
    /\ op' = "extend"
    /\ buf' = buf \o extra
    /\ src' = [src EXCEPT !.delta = Len(extra)]
    /\ UNCHANGED <<inp, res, out, chunk, parsed, fs, cmd>>

TryFrom ==
    /\ op \in {"as_bytes", "tamper", "truncate", "extend"}
    /\ op' = "try_from"
    /\ parsed' = Chunk_try_from(buf)
    /\ UNCHANGED <<inp, res, out, chunk, buf, src, fs, cmd>>

NextChunk ==
    \/ New
    \/ AsBytes
    \/ \E i \in 1..Len(buf), b \in TamperBytes : Tamper(i, b)
    \/ \E n \in 0..(Len(buf) - 1) : Truncate(n)
    \/ \E extra \in SeqsUpTo(PayloadBytes, MaxExtra) \ {<<>>} : Extend(extra)
    \/ TryFrom

SpecChunk == InitChunk /\ [][NextChunk]_vars


-----------------------------------------------------------------------------
(* The Png container (pngme_lib::png::Png), whose source is not among the  *)
(* files read: modelled from section 4.3 of the specification.  A Png is   *)
(* the sequence of its chunks.                                             *)

STANDARD_HEADER == <<137, 80, 78, 71, 13, 10, 26, 10>>

\* where the chunk at the cursor ends: 12 + length bytes on, or at the end
\* of the input when it holds fewer
ChunkEnd(raw, cursor, length_bytes) ==
    IF usize_le(usize_add(from_be_bytes(length_bytes), 12), Len(raw) - cursor)
    THEN cursor + 12 + (length_bytes[3] * 256) + length_bytes[4]
    ELSE Len(raw)

RECURSIVE ParseChunks(_, _, _)
RECURSIVE ParseFrom(_, _, _, _)
RECURSIVE ParsedOne(_, _, _, _)

\* the chunk parsed from the bytes up to stop, then the chunks behind it
ParsedOne(raw, stop, acc, one) ==
    IF ~one.ok THEN one ELSE ParseChunks(raw, stop, Append(acc, one.val))

ParseFrom(raw, cursor, acc, stop) ==
    ParsedOne(raw, stop, acc, Chunk_try_from(SubSeq(raw, cursor + 1, stop)))

\* the chunks of raw from the cursor on, behind acc: each chunk is parsed
\* from the 12 + length bytes at the cursor (or what is left of the input)
ParseChunks(raw, cursor, acc) ==
    IF cursor >= Len(raw) THEN Ok(acc)
    ELSE IF cursor + 4 > Len(raw) THEN Err(ChunkTooShort)
    ELSE ParseFrom(raw, cursor, acc,
                   ChunkEnd(raw, cursor, SubSeq(raw, cursor + 1, cursor + 4)))

\* parse from bytes
Png_try_from(raw) ==
    IF slice_get(raw, 0, 8) # Ok(STANDARD_HEADER)
    THEN Err([kind |-> "InvalidSignature"])
    ELSE ParseChunks(raw, 8, <<>>)

RECURSIVE ConcatBytes(_)
ConcatBytes(cs) ==
    IF cs = <<>> THEN <<>> ELSE as_bytes(Head(cs)) \o ConcatBytes(Tail(cs))

\* serialize to bytes
Png_as_bytes(png) == STANDARD_HEADER \o ConcatBytes(png)

\* append chunk
append_chunk(png, c) == Append(png, c)

\* the lowest index of a chunk whose type renders to the text, or 0
IndexOfType(png, text) ==
    IF \E i \in 1..Len(png) : ChunkType_to_string(png[i].chunk_type) = text
    THEN CHOOSE i \in 1..Len(png) :
            /\ ChunkType_to_string(png[i].chunk_type) = text
            /\ \A j \in 1..(i - 1) :
                  ChunkType_to_string(png[j].chunk_type) # text
    ELSE 0

\* lookup by type
chunk_by_type(png, text) ==
    LET i == IndexOfType(png, text)
    IN  IF i = 0 THEN None ELSE Ok(png[i])

\* remove by type: the container left and the chunk removed
remove_chunk(png, text) ==
    LET i == IndexOfType(png, text)
    IN  IF i = 0 THEN [png |-> png, removed |-> None]
        ELSE [png |-> SubSeq(png, 1, i - 1) \o SubSeq(png, i + 1, Len(png)),
              removed |-> Ok(png[i])]

\* enumerate chunks
chunks(png) == png

-----------------------------------------------------------------------------
(* src/util.rs and src/main.rs: the command handlers over the file system. *)
(* fs maps a path to the file there, File(bytes), or to NoFile.            *)

NoFile == [is_file |-> FALSE, bytes |-> <<>>]

File(b) == [is_file |-> TRUE, bytes |-> b]

\* Option<PathBuf>
NoPath == [some |-> FALSE, path |-> ""]

SomePath(p) == [some |-> TRUE, path |-> p]

validate_png_path(files, path) ==
    IF ~files[path].is_file THEN Err("Entered path is not a valid file.")
    ELSE Ok(<<>>)

\* Png::try_from(..).context("failed to parse png file")
parse_context(png) == IF ~png.ok THEN Err("failed to parse png file") ELSE png

parse_png_from_file(files, path) ==
    IF ~validate_png_path(files, path).ok THEN validate_png_path(files, path)
    ELSE parse_context(Png_try_from(files[path].bytes))

\* the file system after save_png_to_file(png, path)
save_png_to_file(files, png, path) ==
    [files EXCEPT ![path] = File(Png_as_bytes(png))]

Args(name, png_path, type, message, output) ==
    [name |-> name, png_path |-> png_path, chunk_type |-> type,
     message |-> message, output_png_path |-> output]

Ran(args, result) == [args |-> args, result |-> result]

\* fn encode, behind parse_png_from_file(&args.png_path)
encode_png(args, png) ==
    IF ~png.ok
    THEN cmd' = Ran(args, png) /\ UNCHANGED fs
    ELSE IF ~ChunkType_from_str(args.chunk_type).ok
    THEN cmd' = Ran(args, Err("invalid chunk type")) /\ UNCHANGED fs
    ELSE /\ fs' = save_png_to_file(
                    fs,
                    append_chunk(
                        png.val,
                        Chunk_new(ChunkType_from_str(args.chunk_type).val,
                                  str_as_bytes(args.message))),
                    IF args.output_png_path.some
                    THEN args.output_png_path.path
                    ELSE args.png_path)
         /\ cmd' = Ran(args, Ok(<<>>))

\* fn encode
encode(args) == encode_png(args, parse_png_from_file(fs, args.png_path))

\* what decode and remove print of the chunk they found
found_message(args, found) ==
    IF found = None THEN Ran(args, Err("chunk not found"))
    ELSE Ran(args, Ok(data_as_string(found.val)))

\* fn decode, behind parse_png_from_file(&args.png_path)
decode_png(args, png) ==
    /\ UNCHANGED fs
    /\ IF ~png.ok THEN cmd' = Ran(args, png)
       ELSE cmd' = found_message(args, chunk_by_type(png.val, args.chunk_type))

\* fn decode
decode(args) == decode_png(args, parse_png_from_file(fs, args.png_path))

\* fn remove, behind png.remove_chunk(&args.chunk_type)
removed_png(args, r) ==
    /\ cmd' = found_message(args, r.removed)
    /\ IF r.removed = None THEN UNCHANGED fs
       ELSE fs' = save_png_to_file(fs, r.png, args.png_path)

\* fn remove, behind parse_png_from_file(&args.png_path)
remove_png(args, png) ==
    IF ~png.ok THEN cmd' = Ran(args, png) /\ UNCHANGED fs
    ELSE removed_png(args, remove_chunk(png.val, args.chunk_type))

\* fn remove
remove(args) == remove_png(args, parse_png_from_file(fs, args.png_path))

\* fn print, behind parse_png_from_file(&args.png_path)
print_png(args, png) ==
    /\ UNCHANGED fs
    /\ IF ~png.ok THEN cmd' = Ran(args, png)
       ELSE cmd' = Ran(args,
                Ok([i \in 1..Len(chunks(png.val)) |->
                      <<ChunkType_to_string(chunk_type(png.val[i])),
                        data_as_string(png.val[i])>>]))

\* fn print
print(args) == print_png(args, parse_png_from_file(fs, args.png_path))

-----------------------------------------------------------------------------
(* The command line under test.                                            *)

Paths == {"in.png", "out.png"}

\* the chunk types of the command lines: RuSt, tEXt, Ru1t
TypeArgs == {<<82, 117, 83, 116>>, <<116, 69, 88, 116>>, <<82, 117, 49, 116>>}

\* the message of the encode command lines: U+00E9
Messages == {<<233>>}

\* the output paths of the encode command lines
OutputArgs == {NoPath, SomePath("out.png")}

\* the files the first path may hold at the start: an empty png, a png of
\* one chunk whose payload is no text, a png with a second chunk of the
\* same type, a file with another signature, a png cut short, no file
InitialFiles ==
    LET one == Chunk_new(<<116, 69, 88, 116>>, <<255>>)
        two == Chunk_new(<<116, 69, 88, 116>>, <<97>>)
    IN  {File(Png_as_bytes(<<>>)),
         File(Png_as_bytes(<<one>>)),
         File(Png_as_bytes(<<one, two>>)),
         File(<<137, 80, 78, 71, 13, 10, 26, 11>> \o as_bytes(one)),
         File(SubSeq(Png_as_bytes(<<one>>), 1, 19)),
         NoFile}

InitCmd ==
    /\ op = "init"
    /\ inp = None
    /\ res = None
    /\ out = None
    /\ chunk = None
    /\ buf = <<>>
    /\ src = None
    /\ parsed = None
    /\ fs \in {[p \in Paths |-> IF p = "in.png" THEN f ELSE NoFile] :
                  f \in InitialFiles}
    /\ cmd = None

\* the chunks of the file at a path, when it parses
CountOf(png) == IF png.ok THEN Len(png.val) ELSE 0

ChunkCount(files, path) == CountOf(parse_png_from_file(files, path))

Encode(png_path, type, message, output) ==
    /\ ChunkCount(fs, png_path) < MaxChunks
    /\ encode(Args("encode", png_path, type, message, output))
    /\ op' = "encode"
    /\ UNCHANGED <<inp, res, out, chunk, buf, src, parsed>>

Decode(png_path, type) ==
    /\ decode(Args("decode", png_path, type, <<>>, NoPath))
    /\ op' = "decode"
    /\ UNCHANGED <<inp, res, out, chunk, buf, src, parsed>>

Remove(png_path, type) ==
    /\ remove(Args("remove", png_path, type, <<>>, NoPath))
    /\ op' = "remove"
    /\ UNCHANGED <<inp, res, out, chunk, buf, src, parsed>>

PrintChunks(png_path) ==
    /\ print(Args("print", png_path, <<>>, <<>>, NoPath))
    /\ op' = "print"
    /\ UNCHANGED <<inp, res, out, chunk, buf, src, parsed>>

NextCmd ==
    \/ \E t \in TypeArgs, m \in Messages :
          \E o \in OutputArgs : Encode("in.png", t, m, o)
    \/ \E p \in Paths, t \in TypeArgs : Decode(p, t)
    \/ \E p \in Paths, t \in TypeArgs : Remove(p, t)
    \/ \E p \in Paths : PrintChunks(p)

SpecCmd == InitCmd /\ [][NextCmd]_vars


-----------------------------------------------------------------------------
(* Properties of the Type Tag, checked under SpecType.                     *)

Letters == (65..90) \cup (97..122)

\* the bytes handed to the constructor
InputBytes == IF inp.kind = "bytes" THEN inp.val ELSE str_as_bytes(inp.val)

Constructed == op \in {"try_from", "from_str"}

\* the first char of cs that is no ASCII letter
FirstNonLetter(cs) ==
    cs[CHOOSE i \in 1..Len(cs) :
          /\ cs[i] \notin Letters
          /\ \A j \in 1..(i - 1) : cs[j] \in Letters]

\* C5: a Type Tag is constructed if and only if the input is exactly 4
\* bytes, each an ASCII letter; 4 raw bytes that are valid text fail with
\* InvalidCharacter of the first char that is no letter, and with
\* InvalidUtf8 when they are no valid text; text of n # 4 bytes fails with
\* InvalidLength(n); every ChunkType value holds 4 ASCII letters.
C5_Construction ==
    /\ Constructed =>
        /\ res.ok <=> (Len(InputBytes) = 4
                        /\ \A i \in 1..4 : InputBytes[i] \in Letters)
        /\ (inp.kind = "bytes" /\ ~res.ok) =>
              IF from_utf8(inp.val).ok
              THEN res.err = [kind |-> "InvalidCharacter",
                              c |-> FirstNonLetter(from_utf8(inp.val).val)]
              ELSE res.err = [kind |-> "InvalidUtf8"]
        /\ (inp.kind = "str" /\ Len(InputBytes) # 4) =>
              /\ ~res.ok
              /\ res.err = [kind |-> "InvalidLength", n |-> Len(InputBytes)]
    /\ Held => (Len(res.val) = 4 /\ \A i \in 1..4 : res.val[i] \in Letters)

\* 4 raw bytes that are valid text, rejected for a char behind the first
C5_Witness ==
    /\ op = "try_from"
    /\ ~res.ok
    /\ res.err.kind = "InvalidCharacter"
    /\ inp.val[1] \in Letters
    /\ res.err.c # inp.val[1]

\* C6: for 4 ASCII letters, the tag parsed from the text renders to the
\* text, the tag built from the bytes gives back the bytes and renders to
\* their text, and it equals the tag built from that text.
C6_RoundTrip ==
    /\ (op = "to_string" /\ inp.kind = "str") => out = inp.val
    /\ (op = "to_string" /\ inp.kind = "bytes") => str_as_bytes(out) = inp.val
    /\ (op = "bytes" /\ inp.kind = "bytes") => out = inp.val
    /\ (op = "try_from" /\ res.ok) =>
          ChunkType_from_str(from_utf8(inp.val).val) = res

\* a tag parsed from text and rendered
C6_Witness ==
    /\ op = "to_string"
    /\ inp.kind = "str"
    /\ inp.val = <<82, 117, 83, 116>>
    /\ out = <<82, 117, 83, 116>>

\* bit 5 (0x20) of a byte is set
Bit5(b) == (b % 64) >= 32

\* C7: each flag is the test of bit 5 of one byte: critical iff clear in
\* byte 0, public iff clear in byte 1, reserved-bit-valid iff clear in byte
\* 2, safe-to-copy iff set in byte 3; is_valid is is_reserved_bit_valid;
\* "RuSt" is critical, not public, reserved-bit-valid, safe to copy, valid.
C7_Flags ==
    op = "flags" =>
        /\ out.is_critical <=> ~Bit5(res.val[1])
        /\ out.is_public <=> ~Bit5(res.val[2])
        /\ out.is_reserved_bit_valid <=> ~Bit5(res.val[3])
        /\ out.is_safe_to_copy <=> Bit5(res.val[4])
        /\ out.is_valid = out.is_reserved_bit_valid
        /\ res.val = <<82, 117, 83, 116>> =>
              out = [is_valid |-> TRUE, is_critical |-> TRUE,
                     is_public |-> FALSE, is_reserved_bit_valid |-> TRUE,
                     is_safe_to_copy |-> TRUE]

\* a tag that is invalid though critical, public and safe to copy
C7_Witness ==
    /\ op = "flags"
    /\ ~out.is_valid
    /\ out.is_critical
    /\ out.is_public
    /\ out.is_safe_to_copy

-----------------------------------------------------------------------------
(* Properties of the Chunk, checked under SpecChunk.                       *)

\* one single-bit step of CRC-32/ISO-HDLC, polynomial 0xEDB88320 reflected
RefStep(c) ==
    LET s == U32Shr(c, 1)
    IN  IF c.lo % 2 = 1 THEN U32(Xor16(s.hi, 60856), Xor16(s.lo, 33568)) ELSE s

RefByte(c, b) ==
    LET c0 == U32(c.hi, Xor16(c.lo, b))
        c1 == RefStep(c0)
        c2 == RefStep(c1)
        c3 == RefStep(c2)
        c4 == RefStep(c3)
        c5 == RefStep(c4)
        c6 == RefStep(c5)
        c7 == RefStep(c6)
    IN  RefStep(c7)

RECURSIVE RefCrc(_, _)
\* the register c after the bytes bs, taken in order
RefCrc(c, bs) ==
    IF bs = <<>> THEN c
    ELSE LET d == RefByte(c, Head(bs))
         IN  IF d.lo >= 0 THEN RefCrc(d, Tail(bs)) ELSE d

\* CRC-32/ISO-HDLC of a byte sequence, bit by bit
Crc32(bs) ==
    LET c == RefCrc(U32(65535, 65535), bs)
    IN  U32(65535 - c.hi, 65535 - c.lo)

\* the slice is the serialized chunk, untouched
Pristine == src # None /\ src.at = 0 /\ src.delta = 0

\* C1: parsing the bytes of Chunk::new(t, p) succeeds and yields a Chunk
\* equal to Chunk::new(t, p) in length, chunk_type, data and crc.
C1_RoundTrip ==
    (op = "try_from" /\ Pristine) =>
        /\ parsed.ok
        /\ parsed.val.length = chunk.length
        /\ parsed.val.chunk_type = inp.chunk_type
        /\ parsed.val.data = inp.data
        /\ parsed.val.crc = chunk.crc
        /\ parsed.val = chunk

\* an untouched serialized chunk with a payload, parsed
C1_Witness ==
    /\ op = "try_from"
    /\ Pristine
    /\ parsed.ok
    /\ Len(inp.data) = 2

\* length and crc of c agree with its data and type
Consistent(c) ==
    /\ c.length.hi = 0
    /\ c.length.lo = Len(c.data)
    /\ c.crc = Crc32(c.chunk_type \o c.data)

\* C2: every Chunk that Chunk::new or a successful Chunk::try_from yields
\* has length equal to the byte length of data and crc equal to the
\* CRC-32/ISO-HDLC of the 4 type bytes followed by data.
C2_Consistent ==
    /\ chunk # None => Consistent(chunk)
    /\ (op = "try_from" /\ parsed.ok) => Consistent(parsed.val)

\* a Chunk with a payload from Chunk::new and one from Chunk::try_from
C2_Witness ==
    /\ op = "try_from"
    /\ parsed.ok
    /\ chunk # None
    /\ Len(parsed.val.data) = 1

\* C3: as_bytes yields 12 + length bytes: the length big-endian, the 4 type
\* bytes, the data, the crc big-endian.
C3_Layout ==
    op = "as_bytes" =>
        LET n == Len(chunk.data)
        IN  /\ Len(buf) = 12 + length(chunk)
            /\ (buf[1] * 16777216) + (buf[2] * 65536) + (buf[3] * 256) + buf[4]
                  = length(chunk)
            /\ SubSeq(buf, 5, 8) = inp.chunk_type
            /\ SubSeq(buf, 9, 8 + n) = inp.data
            /\ (buf[n + 9] * 256) + buf[n + 10] = chunk.crc.hi
            /\ (buf[n + 11] * 256) + buf[n + 12] = chunk.crc.lo

\* a chunk with a payload, serialized
C3_Witness ==
    /\ op = "as_bytes"
    /\ Len(chunk.data) = 2
    /\ Len(buf) = 14

\* one byte of the stored checksum was overwritten, nothing else changed
CrcTampered == src # None /\ src.delta = 0 /\ src.at > Len(buf) - 4

\* the checksum stored in the last 4 bytes of the slice
StoredCrc ==
    LET n == Len(buf)
    IN  U32((buf[n - 3] * 256) + buf[n - 2], (buf[n - 1] * 256) + buf[n])

\* C4: a serialized chunk whose stored checksum was changed fails with
\* InvalidCrc, expected the stored value and actual the recomputed one.
C4_InvalidCrc ==
    (op = "try_from" /\ CrcTampered) =>
        /\ ~parsed.ok
        /\ parsed.err.kind = "InvalidCrc"
        /\ parsed.err.expected = StoredCrc
        /\ parsed.err.actual = Crc32(inp.chunk_type \o inp.data)
        /\ parsed.err.expected # parsed.err.actual

\* the lowest byte of the checksum of a chunk with a payload was changed
C4_Witness ==
    /\ op = "try_from"
    /\ CrcTampered
    /\ src.at = Len(buf)
    /\ Len(inp.data) = 1
    /\ ~parsed.ok

\* the declared length, when it is below 2^16
Declared == (buf[3] * 256) + buf[4]

DeclaredHuge == buf[1] > 0 \/ buf[2] > 0

\* the outcome of parsing buf, step by step
ExpectedOutcome ==
    LET n == Len(buf)
    IN  IF n < 4 THEN "ChunkTooShort"
        ELSE IF n < 8 THEN "ChunkTooShort"
        ELSE IF \E i \in 5..8 : buf[i] \notin Letters THEN "InvalidChunkType"
        ELSE IF DeclaredHuge \/ n < 8 + Declared THEN "ChunkTooShort"
        ELSE IF n < 12 + Declared THEN "ChunkTooShort"
        ELSE IF U32((buf[9 + Declared] * 256) + buf[10 + Declared],
                    (buf[11 + Declared] * 256) + buf[12 + Declared])
                  # Crc32(SubSeq(buf, 5, 8 + Declared)) THEN "InvalidCrc"
        ELSE IF n > 12 + Declared THEN "ChunkTooLong"
        ELSE "Ok"

Outcome(r) == IF r.ok THEN "Ok" ELSE r.err.kind

\* C10: Chunk::try_from reports the first failing step in the order: length
\* bytes, type bytes, type letters, data bytes, checksum bytes, checksum
\* match, trailing bytes; it succeeds exactly on a slice of 12 + length
\* bytes with letters for its type and a matching checksum, and
\* ChunkTooLong is returned only when the leading 12 + length bytes parse.
C10_ErrorOrder ==
    op = "try_from" =>
        /\ Outcome(parsed) = ExpectedOutcome
        /\ parsed.ok <=>
              /\ Len(buf) >= 8
              /\ ~DeclaredHuge
              /\ Len(buf) = 12 + Declared
              /\ \A i \in 5..8 : buf[i] \in Letters
              /\ StoredCrc = Crc32(SubSeq(buf, 5, 8 + Declared))
        /\ Outcome(parsed) = "ChunkTooLong" =>
              Chunk_try_from(SubSeq(buf, 1, 12 + Declared)).ok

\* a slice with a wrong stored checksum and a trailing byte: InvalidCrc
C10_Witness ==
    /\ op = "try_from"
    /\ src.at > 8
    /\ src.delta > 0
    /\ Outcome(parsed) = "InvalidCrc"

-----------------------------------------------------------------------------
(* Properties of the container behind the commands, checked under SpecCmd. *)

\* the path an encode command writes
TargetOf(c) == IF c.args.output_png_path.some
               THEN c.args.output_png_path.path
               ELSE c.args.png_path

\* the container held by the file at a path
PngAt(files, path) == parse_png_from_file(files, path).val

\* how many chunks of a container render their type to the text
TypeCount(png, text) ==
    Cardinality({i \in 1..Len(png) :
                    ChunkType_to_string(png[i].chunk_type) = text})

\* command c appended a chunk and wrote the container
AppendedBy(c) == c # None /\ c.args.name = "encode" /\ c.result.ok

\* behind command c, lookup by the appended chunk's type gives a chunk
\* with the appended payload
LookupGivesPayload(files, c) ==
    LET found == chunk_by_type(PngAt(files, TargetOf(c)), c.args.chunk_type)
    IN  /\ found # None
        /\ found.val.data = str_as_bytes(c.args.message)

\* this step removes, by the type just appended, from the file just written
RemovesAppended ==
    /\ AppendedBy(cmd)
    /\ cmd'.args.name = "remove"
    /\ cmd'.args.png_path = TargetOf(cmd)
    /\ cmd'.args.chunk_type = cmd.args.chunk_type

\* the removal took one chunk and lookup by the type finds none
RemoveEffect ==
    /\ cmd'.result.ok
    /\ ChunkCount(fs', cmd'.args.png_path)
          = ChunkCount(fs, cmd'.args.png_path) - 1
    /\ chunk_by_type(PngAt(fs', cmd'.args.png_path), cmd'.args.chunk_type)
          = None

\* C8 as stated: for any container and chunk c, after append(c) lookup by
\* c's type gives c's payload; after then remove-by-type the count is one
\* less and lookup by that type finds nothing.
C8_AnyContainer ==
    [][/\ AppendedBy(cmd') => LookupGivesPayload(fs', cmd')
       /\ RemovesAppended => RemoveEffect]_vars

\* C8, amended: the same for a container that holds no chunk of c's type
\* before the append (so exactly one behind it).
C8_NoChunkOfType ==
    [][/\ (/\ AppendedBy(cmd')
           /\ chunk_by_type(PngAt(fs, cmd'.args.png_path),
                            cmd'.args.chunk_type) = None)
          => LookupGivesPayload(fs', cmd')
       /\ (/\ RemovesAppended
           /\ TypeCount(PngAt(fs, TargetOf(cmd)), cmd.args.chunk_type) = 1)
          => RemoveEffect]_vars

\* the appended chunk was removed again and lookup by its type finds none
C8_Witness ==
    /\ cmd # None
    /\ cmd.args.name = "remove"
    /\ cmd.result = Ok(<<233>>)
    /\ chunk_by_type(PngAt(fs, cmd.args.png_path), cmd.args.chunk_type) = None

RECURSIVE LaidOut(_, _, _)
\* the bytes of b behind the offset are the chunks of cs, one by one
LaidOut(b, offset, cs) ==
    IF cs = <<>> THEN offset = Len(b)
    ELSE LET n == 12 + Len(Head(cs).data)
         IN  /\ offset + n <= Len(b)
             /\ SubSeq(b, offset + 1, offset + n) = as_bytes(Head(cs))
             /\ LaidOut(b, offset + n, Tail(cs))

\* b parses, and the parsed container serializes to b again
Reparses(b) ==
    /\ Png_try_from(b).ok
    /\ Png_as_bytes(Png_try_from(b).val) = b

\* C9: a container built by parse, append and remove serializes to the
\* signature followed by its chunks' bytes in order, and parsing these
\* bytes and serializing again gives the same bytes.
C9_SerializeParse ==
    /\ (cmd # None /\ cmd.args.name \in {"encode", "remove"} /\ cmd.result.ok)
          => /\ Reparses(fs[TargetOf(cmd)].bytes)
             /\ SubSeq(fs[TargetOf(cmd)].bytes, 1, 8)
                   = <<137, 80, 78, 71, 13, 10, 26, 10>>
             /\ LaidOut(fs[TargetOf(cmd)].bytes, 8,
                        Png_try_from(fs[TargetOf(cmd)].bytes).val)
    /\ \A p \in Paths :
          parse_png_from_file(fs, p).ok
             => Reparses(Png_as_bytes(PngAt(fs, p)))

\* a container parsed, appended to and written to the output path
C9_Witness ==
    /\ AppendedBy(cmd)
    /\ cmd.args.output_png_path.some
    /\ ChunkCount(fs, "out.png") = 2
    /\ ChunkCount(fs, "in.png") = 1

====
